---- MODULE Spec2Model ----
(***************************************************************************)
(* polygons_to_points of cuspatial_synthetic_people.ipynb: the rejection   *)
(* sampling loop that fills every polygon of a batch with its quota of     *)
(* random points, and the selection of the exact number of points; and     *)
(* get_subset and the batch loop that cut the table into batches.          *)
(*                                                                         *)
(* The plane is a small grid of unit cells and a coordinate is the index   *)
(* of a cell.  A polygon is given by its bounding box                      *)
(* [x_min, x_max) x [y_min, y_max) and by the cells of the box it covers:  *)
(* a polygon need not fill its bounding box, and a polygon whose box has   *)
(* zero width or height covers no cell.                                    *)
(***************************************************************************)
EXTENDS Integers, Sequences, FiniteSets, TLC

\* ---- bounds of the model ------------------------------------------------
\* polygons in a batch
MaxPolys == 2
\* largest total_points: the populations (quotas) of a batch sum up to it
\* at most
MaxTotalPoints == 3
\* max_len: random points generated in an iteration
MaxLen == 2
\* value at which the printed iteration counter saturates
MaxIt == 2
\* max_depth: max depth of a quadtree
MaxDepth == 1

\* ---- geometry -----------------------------------------------------------
Rect(x0, y0, x1, y1) == [x_min |-> x0, y_min |-> y0, x_max |-> x1, y_max |-> y1]

Polygon(b, cells) == [bounds |-> b, cells |-> cells]

\* the polygons a batch is built from: one that covers the left cell of its
\* bounding box, one that covers the right cell of its bounding box (the
\* boxes of the two overlap, the polygons do not) and one that is collapsed
\* to a line; two polygons of a batch with the same geometry overlap
Geometries ==
    { Polygon(Rect(0, 0, 2, 1), { << 0, 0 >> }),
      Polygon(Rect(1, 0, 3, 1), { << 2, 0 >> }),
      Polygon(Rect(0, 0, 3, 0), {}) }

Area(b) == (b.x_max - b.x_min) * (b.y_max - b.y_min)

\* the point in polygon test of the join
Inside(g, x, y) == << x, y >> \in g.cells

\* cupy.random.uniform(low, high) draws from [low, high), and low when the
\* interval is empty
Uniform(low, high) == IF low < high THEN low .. (high - 1) ELSE { low }

SetMin(S) == CHOOSE m \in S : \A e \in S : m <= e
SetMax(S) == CHOOSE m \in S : \A e \in S : m >= e
Max2(a, b) == IF a >= b THEN a ELSE b

RECURSIVE Pow2(_)
Pow2(d) == IF d = 0 THEN 1 ELSE 2 * Pow2(d - 1)

RECURSIVE SumTo(_, _)
SumTo(f, i) == IF i < 0 THEN 0 ELSE f[i] + SumTo(f, i - 1)

VARIABLES
    gdf,            \* table of the polygons of the batch, by position 0..n-1
    geoids,         \* indexes of the polygons, by position
    keep_polygons,  \* positions of the polygons with missing points
    gen_points,     \* number of points generated in each polygon
    keep_points,    \* all points that are within a polygon: rows x, y, geoid
    it,             \* num iterations (saturates at MaxIt)
    scale,          \* scale of the quadtree of the last iteration
    pc,             \* "loop", "returned" or "error"
    err,            \* the exception polygons_to_points ended with
    selected,       \* the rows polygons_to_points returned
    gdf_table,      \* module level gdf: table of all polygons, by position
    poly_offsets,   \* index of the first ring of each polygon of the table
    ring_offsets,   \* index of the first coordinate of each ring of the table
    xcoords,        \* flattened coordinates of the rings of the table
    batch_size,     \* polygons in a batch
    batch_begin,    \* i of the batch loop: index of the first row of the batch
    subset,         \* the offsets and coordinates get_subset returned
    all_batch_results \* the frames polygons_to_points returned, by batch

\* the variables of the batch loop and of get_subset
table_vars == << gdf_table, poly_offsets, ring_offsets, xcoords, batch_size,
                 batch_begin, subset, all_batch_results >>

vars == << gdf, geoids, keep_polygons, gen_points, keep_points, it, scale,
           pc, err, selected, table_vars >>

num_polygons == Cardinality(DOMAIN gdf)
Positions == 0 .. (num_polygons - 1)
\* cupy.asarray(gdf[val_col]): the quotas by position
num_points == [i \in Positions |-> gdf[i].POP]

\* a call of polygons_to_points on a batch that is already cut: the table
\* the batch was cut from plays no part
NoTable ==
    /\ gdf_table = << >>
    /\ poly_offsets = << >>
    /\ ring_offsets = << >>
    /\ xcoords = << >>
    /\ batch_size = 0
    /\ batch_begin = 0
    /\ subset = << >>
    /\ all_batch_results = << >>

\* the state at the start of the while loop.  The batch is the first or the
\* second batch of n rows of the table: the index of the batch keeps the
\* labels of the table, begin .. begin + n - 1, and so do the geoids
Init ==
    /\ \E n \in 1 .. MaxPolys :
         \E begin \in { 0, n },
            pop \in { f \in [0 .. (n - 1) -> 0 .. MaxTotalPoints] :
                        SumTo(f, n - 1) <= MaxTotalPoints },
            geo \in [0 .. (n - 1) -> Geometries] :
            /\ gdf = [i \in 0 .. (n - 1) |->
                        [index |-> begin + i, POP |-> pop[i], geometry |-> geo[i]]]
            /\ geoids = [i \in 0 .. (n - 1) |-> begin + i]
            /\ keep_polygons = 0 .. (n - 1)
            /\ gen_points = [i \in 0 .. (n - 1) |-> 0]
    /\ keep_points = << >>
    /\ it = 0
    /\ scale = 0
    /\ pc = "loop"
    /\ err = "none"
    /\ selected = << >>
    /\ NoTable

\* ---- one iteration of the while loop ------------------------------------
\* gdf.iloc[keep_polygons].total_bounds
TotalBounds(keep) ==
    Rect(SetMin({gdf[p].geometry.bounds.x_min : p \in keep}),
         SetMin({gdf[p].geometry.bounds.y_min : p \in keep}),
         SetMax({gdf[p].geometry.bounds.x_max : p \in keep}),
         SetMax({gdf[p].geometry.bounds.y_max : p \in keep}))

PointIds == 0 .. (MaxLen - 1)

\* max(max_px - min_px, max_py - min_py) // (1 << max_depth)
Scale(xs, ys, depth) ==
    Max2(SetMax({xs[k] : k \in PointIds}) - SetMin({xs[k] : k \in PointIds}),
         SetMax({ys[k] : k \in PointIds}) - SetMin({ys[k] : k \in PointIds}))
      \div Pow2(depth)

\* cuspatial.quadtree_point_in_polygon: a row for every point and every
\* polygon of the batch that contains it
Join(xs, ys) ==
    { r \in [point_index : PointIds, polygon_index : Positions] :
        Inside(gdf[r.polygon_index].geometry, xs[r.point_index], ys[r.point_index]) }

\* a filter that keeps the rows of the polygons that are full as well
FilterResult_All(joined, keep) == joined

\* result.iloc[keep_ids]: the rows of the polygons that are not full
FilterResult(joined, keep) == { r \in joined : r.polygon_index \in keep }

\* the rows of a join result in the order of the point index, then of the
\* polygon index
RECURSIVE RowSeq(_)
RowSeq(rows) ==
    IF rows = {} THEN << >>
    ELSE LET first == CHOOSE r \in rows : \A s \in rows :
                          \/ r.point_index < s.point_index
                          \/ /\ r.point_index = s.point_index
                             /\ r.polygon_index <= s.polygon_index
         IN  << first >> \o RowSeq(rows \ {first})

\* the frame that is concatenated to keep_points
NewPoints(rows, xs, ys) ==
    LET rs == RowSeq(rows)
    IN  [j \in 1 .. Len(rs) |->
            [x |-> xs[rs[j].point_index], y |-> ys[rs[j].point_index],
             geoid |-> geoids[rs[j].polygon_index]]]

\* a count that is overwritten with the rows of the iteration, not added to
AddCounts_Overwrite(gen, rows) ==
    [p \in DOMAIN gen |-> Cardinality({r \in rows : r.polygon_index = p})]

\* a count that goes up by one for a polygon with rows, however many
AddCounts_Once(gen, rows) ==
    [p \in DOMAIN gen |->
        gen[p] + IF \E r \in rows : r.polygon_index = p THEN 1 ELSE 0]

\* gen_points[count_df['polygon_index']] += count_df['point_index']
AddCounts(gen, rows) ==
    [p \in DOMAIN gen |-> gen[p] + Cardinality({r \in rows : r.polygon_index = p})]

\* a loop that keeps a polygon that has just reached its quota
MissingPolygons_KeepFull(gen) == { p \in DOMAIN gen : num_points[p] - gen[p] >= 0 }

\* a loop that lets a polygon go when it is one point short
MissingPolygons_OneShort(gen) == { p \in DOMAIN gen : num_points[p] - gen[p] > 1 }

\* cupy.where(missing_points > 0)[0]
MissingPolygons(gen) == { p \in DOMAIN gen : num_points[p] - gen[p] > 0 }

Round ==
    /\ pc = "loop"
    /\ keep_polygons # {}
    /\ LET tb == TotalBounds(keep_polygons)
       IN  \E xs \in [PointIds -> Uniform(tb.x_min, tb.x_max)],
              ys \in [PointIds -> Uniform(tb.y_min, tb.y_max)] :
              LET rows == FilterResult(Join(xs, ys), keep_polygons)
                  gen  == AddCounts(gen_points, rows)
              IN  /\ scale' = Scale(xs, ys, MaxDepth)
                  /\ keep_points' = keep_points \o NewPoints(rows, xs, ys)
                  /\ gen_points' = gen
                  /\ keep_polygons' = MissingPolygons(gen)
    /\ it' = IF it < MaxIt THEN it + 1 ELSE it
    /\ UNCHANGED << gdf, geoids, pc, err, selected, table_vars >>

\* ---- select exact number of points in each polygon ----------------------
\* keep_points.groupby('geoid').count()['x'][g]: 0 stands for a missing key
CountPoints(g) ==
    Cardinality({ j \in 1 .. Len(keep_points) : keep_points[j].geoid = g })

RowsOf(g) == SelectSeq(keep_points, LAMBDA r : r.geoid = g)

\* the orders the rows of s can be put in
Perms(s) ==
    LET rows == { s[j] : j \in 1 .. Len(s) }
        N(t, r) == Cardinality({ j \in 1 .. Len(s) : t[j] = r })
    IN  { t \in [1 .. Len(s) -> rows] : \A r \in rows : N(t, r) = N(s, r) }

\* keep_points.sort_values(by='geoid'): the rows in the order of the geoid;
\* the sort leaves the order of the rows of one geoid open
RECURSIVE SortedBy(_)
SortedBy(G) ==
    IF G = {} THEN { << >> }
    ELSE LET g == SetMin(G)
         IN  { a \o b : a \in Perms(RowsOf(g)), b \in SortedBy(G \ {g}) }

SortedPoints == SortedBy({ keep_points[j].geoid : j \in 1 .. Len(keep_points) })

\* gdf[val_col][i] looks the label i up in the index of the table
HasLabel(i) == \E p \in Positions : gdf[p].index = i
NumExpectedPoints(i) == gdf[CHOOSE p \in Positions : gdf[p].index = i].POP

\* a selection that forgets the start index of the polygon
ExactPoints_FromStart(sorted_points, point_id, num_expected_points) ==
    SubSeq(sorted_points, 1, num_expected_points)

\* sorted_points.iloc[range(point_id, point_id + num_expected_points)]
ExactPoints(sorted_points, point_id, num_expected_points) ==
    SubSeq(sorted_points, point_id + 1, point_id + num_expected_points)

\* the for loop over the polygons, from polygon i on
RECURSIVE SelectFrom(_, _, _, _)
SelectFrom(sorted_points, i, point_id, acc) ==
    IF i = num_polygons
      THEN [pc |-> "returned", err |-> "none", rows |-> acc]
    ELSE IF ~ HasLabel(i)
      THEN [pc |-> "error", err |-> "KeyError_val_col", rows |-> << >>]
    ELSE IF point_id + NumExpectedPoints(i) > Len(sorted_points)
      THEN [pc |-> "error", err |-> "IndexError_iloc", rows |-> << >>]
    ELSE IF CountPoints(geoids[i]) = 0
      THEN [pc |-> "error", err |-> "KeyError_count_points", rows |-> << >>]
    ELSE SelectFrom(sorted_points, i + 1, point_id + CountPoints(geoids[i]),
                    acc \o ExactPoints(sorted_points, point_id, NumExpectedPoints(i)))

Select ==
    /\ pc = "loop"
    /\ keep_polygons = {}
    /\ \E sorted_points \in SortedPoints :
         LET out == SelectFrom(sorted_points, 0, 0, << >>)
         IN  /\ pc' = out.pc
             /\ err' = out.err
             /\ selected' = out.rows
    /\ UNCHANGED << gdf, geoids, keep_polygons, gen_points,
                    keep_points, it, scale, table_vars >>

Next == Round \/ Select

Spec == Init /\ [][Next]_vars

\* an iteration in which the join accepts a point of polygon p
RoundAccepting(p) == Round /\ p \in Positions /\ gen_points'[p] > gen_points[p]

\* the loop and the selection keep running, and random sampling hits every
\* polygon that stays short of points and can contain a point
LiveSpec ==
    /\ Init /\ [][Next]_vars
    /\ WF_vars(Round) /\ WF_vars(Select)
    /\ \A p \in 0 .. (MaxPolys - 1) : WF_vars(RoundAccepting(p))

\* ---- the selection as a function of the pool -----------------------------
\* largest pool the selection is run on
MaxPool == 3

\* polygon p of a batch the selection is run on: it fills the two cells of
\* its bounding box, so the pool can hold different points of one polygon
TwoCells(p) == Polygon(Rect(0, p, 2, p + 1), { << 0, p >>, << 1, p >> })

\* the pools of at most MaxPool rows, in the order the rows were generated:
\* every row is a point inside the polygon of its geoid
Pools(n) ==
    LET rows == { [x |-> 0, y |-> p, geoid |-> p] : p \in 0 .. (n - 1) }
                  \cup { [x |-> 1, y |-> p, geoid |-> p] : p \in 0 .. (n - 1) }
    IN  UNION { [1 .. k -> rows] : k \in 0 .. MaxPool }

\* the state after the while loop, for a first batch of the table: the pool
\* is any pool, also one the loop would not have stopped on
SelectorInit ==
    /\ \E n \in 1 .. MaxPolys :
         \E pop \in { f \in [0 .. (n - 1) -> 0 .. MaxTotalPoints] :
                        SumTo(f, n - 1) <= MaxTotalPoints },
            pool \in Pools(n) :
            /\ gdf = [i \in 0 .. (n - 1) |->
                        [index |-> i, POP |-> pop[i], geometry |-> TwoCells(i)]]
            /\ geoids = [i \in 0 .. (n - 1) |-> i]
            /\ keep_points = pool
            /\ gen_points = [i \in 0 .. (n - 1) |->
                  Cardinality({ j \in 1 .. Len(pool) : pool[j].geoid = i })]
    /\ keep_polygons = {}
    /\ it = 1
    /\ scale = 0
    /\ pc = "loop"
    /\ err = "none"
    /\ selected = << >>
    /\ NoTable

SelectorNext == Select

SelectorSpec == SelectorInit /\ [][SelectorNext]_vars

\* ---- get_subset and the batch loop ---------------------------------------
\* polygons in the table
MaxRows == 3
\* rings of a polygon
MaxRings == 2
\* coordinates of a ring
MaxRingLen == 2
\* largest batch_size
MaxBatch == 2

\* s.iloc[range(a, b)].reset_index(drop=True) and s[a:b].reset_index(drop=True)
\* of a series s with positions 0 .. len(s) - 1
Slice(s, a, b) == [k \in 0 .. (b - a - 1) |-> s[a + k]]

SeriesLen(s) == Cardinality(DOMAIN s)

\* index of last coords: ring_offsets[end_ring] if
\* end_ring < len(ring_offsets) - 1, else len(coords)
EndCoords(rings, end_ring, num_coords) ==
    IF end_ring < SeriesLen(rings) - 1 THEN rings[end_ring] ELSE num_coords

\* get_subset(begin, end, gdf, geoids, poly_offsets, ring_offsets, xcoords,
\* ycoords); ycoords is cut like xcoords. A read of a row or of an offset
\* that does not exist raises.
GetSubset(begin, end) ==
    IF end > SeriesLen(gdf_table)
      THEN [err |-> "IndexError_gdf_iloc"]
    ELSE IF end \notin DOMAIN poly_offsets
      THEN [err |-> "KeyError_poly_offsets"]
    ELSE LET begin_ring == poly_offsets[begin]
             end_ring == poly_offsets[end]
             rings == Slice(ring_offsets, begin_ring, end_ring)
             begin_coords == ring_offsets[begin_ring]
             end_coords == EndCoords(ring_offsets, end_ring, SeriesLen(xcoords))
         IN  [err |-> "none",
              subset_gdf |-> Slice(gdf_table, begin, end),
              subset_geoids |-> [k \in 0 .. (end - begin - 1) |-> begin + k],
              subset_poly_offsets |->
                  [k \in 0 .. (end - begin - 1) |->
                      poly_offsets[begin + k] - poly_offsets[begin]],
              subset_ring_offsets |->
                  [k \in DOMAIN rings |-> rings[k] - rings[0]],
              subset_xcoords |-> Slice(xcoords, begin_coords, end_coords)]

\* a batch loop that hands the pool of the batch before to the next call
InitialPool_Shared == keep_points

\* keep_points = cudf.DataFrame({'x': [], 'y': [], 'geoid': []})
InitialPool == << >>

\* begin, end = i, i + batch_size; get_subset(begin, end, ...); and the
\* start of polygons_to_points on the batch, up to the while loop
NextBatch ==
    /\ pc = "batch"
    /\ LET sub == GetSubset(batch_begin, batch_begin + batch_size)
       IN  IF sub.err # "none"
             THEN /\ pc' = "error"
                  /\ err' = sub.err
                  /\ UNCHANGED << gdf, geoids, keep_polygons, gen_points,
                                  keep_points, it, subset >>
             ELSE /\ pc' = "loop"
                  /\ err' = "none"
                  /\ gdf' = sub.subset_gdf
                  /\ geoids' = sub.subset_geoids
                  /\ subset' = [subset_poly_offsets |-> sub.subset_poly_offsets,
                                subset_ring_offsets |-> sub.subset_ring_offsets,
                                subset_xcoords |-> sub.subset_xcoords]
                  /\ keep_polygons' = DOMAIN sub.subset_gdf
                  /\ gen_points' = [k \in DOMAIN sub.subset_gdf |-> 0]
                  /\ keep_points' = InitialPool
                  /\ it' = 0
    /\ UNCHANGED << scale, selected, gdf_table, poly_offsets, ring_offsets,
                    xcoords, batch_size, batch_begin, all_batch_results >>

\* all_batch_results.append(subset_result), and the next i of
\* range(0, gdf.shape[0], batch_size)
AppendResult ==
    /\ pc = "returned"
    /\ batch_size > 0
    /\ all_batch_results' = Append(all_batch_results, selected)
    /\ batch_begin' = batch_begin + batch_size
    /\ pc' = IF batch_begin + batch_size < SeriesLen(gdf_table)
               THEN "batch" ELSE "done"
    /\ UNCHANGED << gdf, geoids, keep_polygons, gen_points, keep_points, it,
                    scale, err, selected, subset, gdf_table, poly_offsets,
                    ring_offsets, xcoords, batch_size >>

\* the offsets of a table: rings[k] is the number of rings of polygon k and
\* every ring has len coordinates
PolyOffsets(rings) == [k \in DOMAIN rings |-> SumTo(rings, k - 1)]
RingOffsets(rings, len) ==
    [r \in 0 .. (SumTo(rings, SeriesLen(rings) - 1) - 1) |-> len * r]

\* the state before the batch loop: a table of n polygons with the default
\* index 0 .. n - 1, each asking for one point in the left cell of its
\* bounding box or for none
DriverInit ==
    /\ \E n \in 1 .. MaxRows :
         \E rings \in [0 .. (n - 1) -> 1 .. MaxRings],
            len \in 1 .. MaxRingLen,
            pop \in [0 .. (n - 1) -> 0 .. 1] :
            /\ gdf_table = [k \in 0 .. (n - 1) |->
                  [index |-> k, POP |-> pop[k],
                   geometry |-> Polygon(Rect(0, 0, 2, 1), { << 0, 0 >> })]]
            /\ poly_offsets = PolyOffsets(rings)
            /\ ring_offsets = RingOffsets(rings, len)
            /\ xcoords = [c \in 0 .. (len * SumTo(rings, n - 1) - 1) |-> c]
    /\ batch_size \in 1 .. MaxBatch
    /\ batch_begin = 0
    /\ subset = << >>
    /\ all_batch_results = << >>
    /\ gdf = << >>
    /\ geoids = << >>
    /\ keep_polygons = {}
    /\ gen_points = << >>
    /\ keep_points = << >>
    /\ it = 0
    /\ scale = 0
    /\ pc = "batch"
    /\ err = "none"
    /\ selected = << >>

DriverNext == NextBatch \/ Round \/ Select \/ AppendResult

DriverSpec == DriverInit /\ [][DriverNext]_vars

\* ---- properties ----------------------------------------------------------
\* rows of the returned frame with the geoid of the polygon at position p
SelectedOf(p) == { j \in 1 .. Len(selected) : selected[j].geoid = geoids[p] }

\* the batch is the first of the table: the labels of its index are 0..n-1,
\* not n..2n-1 as for the second batch
FirstBatch == \A p \in Positions : gdf[p].index = p

\* every polygon of the batch asks for at least one point
PositiveQuotas == \A p \in Positions : num_points[p] > 0

\* every polygon of the batch has a positive area
WellFormed ==
    \A p \in Positions :
        Area(gdf[p].geometry.bounds) > 0 /\ gdf[p].geometry.cells # {}

\* no two polygons of the batch contain the same point
NonOverlapping ==
    \A p, q \in Positions :
        p # q => gdf[p].geometry.cells \cap gdf[q].geometry.cells = {}

\* C1: quota exactness. Whenever polygons_to_points returns, the number of
\* returned rows with the id of a polygon equals the quota of that polygon.
C1_QuotaExactness ==
    pc = "returned" =>
        \A p \in Positions : Cardinality(SelectedOf(p)) = num_points[p]

\* C1 happens: a batch of two polygons returned, one of them filled from a
\* pool that holds more points of it than its quota
C1_Witness ==
    /\ pc = "returned" /\ num_polygons = 2
    /\ \A p \in Positions : num_points[p] > 0
    /\ \E p \in Positions : gen_points[p] > num_points[p]

\* C2: containment. Every returned row is a point inside the polygon its
\* geoid names and outside every other polygon of the batch (stated for
\* batches in which every polygon asks for at least one point).
C2_Containment ==
    (pc = "returned" /\ PositiveQuotas) =>
        \A j \in 1 .. Len(selected) : \A p \in Positions :
            (geoids[p] = selected[j].geoid)
                <=> Inside(gdf[p].geometry, selected[j].x, selected[j].y)

\* containment for a batch that keeps the invariant of the data model (no
\* two polygons overlap)
ContainmentWithoutOverlap ==
    (pc = "returned" /\ NonOverlapping) =>
        \A j \in 1 .. Len(selected) : \A p \in Positions :
            (geoids[p] = selected[j].geoid)
                <=> Inside(gdf[p].geometry, selected[j].x, selected[j].y)

\* C3: termination. For a well-formed batch, under fair sampling, the loop
\* converges and polygons_to_points returns.
C3_Termination == (WellFormed /\ FirstBatch) => <>(pc = "returned")

\* the loop itself converges for a well-formed batch under fair sampling
LoopConverges == WellFormed => <>(pc # "loop")

\* C4: round cap. The loop never runs more rounds than a configured maximum;
\* stated for the largest maximum the counter tells apart, MaxIt - 1: the
\* loop is never still active after more iterations than that (for
\* well-formed batches in which every polygon asks for at least one point).
C4_RoundCap ==
    (WellFormed /\ PositiveQuotas /\ pc = "loop" /\ keep_polygons # {})
        => it <= MaxIt - 1

\* C5: degenerate rejection. No iteration of the loop is run when the
\* bounding box of the active polygons has zero area (stated for batches in
\* which every polygon asks for at least one point): a step that ends in the
\* loop is an iteration.
C5_DegenerateRejected ==
    [][(pc' = "loop" /\ PositiveQuotas) => Area(TotalBounds(keep_polygons)) > 0]_vars

\* C6: a polygon with quota 0 is never in the active set and no point is
\* ever accumulated for it.
C6_ZeroQuotaNeverActive ==
    \A p \in Positions :
        num_points[p] = 0 => (p \notin keep_polygons /\ gen_points[p] = 0)

\* C7: a batch with a polygon of quota 0 completes normally, with no row of
\* that polygon (stated for a well-formed first batch of the table).
C7_ZeroQuotaCompletes ==
    (pc # "loop" /\ FirstBatch /\ WellFormed) =>
        \A p \in Positions :
            num_points[p] = 0 => (pc = "returned" /\ SelectedOf(p) = {})

\* C8: when the loop has left the active state, and so when the selection
\* runs, the pool holds at least quota(p) points of every polygon p.
C8_PoolCoversQuota ==
    keep_polygons = {} =>
        \A p \in Positions : CountPoints(geoids[p]) >= num_points[p]

\* C8 happens: the loop converged in its second or a later iteration for two
\* polygons with a positive quota, and the selection is about to run
C8_Witness ==
    /\ pc = "loop" /\ keep_polygons = {} /\ it >= 2 /\ num_polygons = 2
    /\ \A p \in Positions : num_points[p] > 0

\* C9: double match. A point the join reports inside several polygons is
\* accumulated for one polygon only: an iteration appends at most one row
\* per generated point to the pool (stated for batches in which every
\* polygon asks for at least one point).
C9_DoubleMatchOnce ==
    [][PositiveQuotas => Len(keep_points') - Len(keep_points) <= MaxLen]_vars

\* C10: the scale handed to the quadtree and to the join is strictly
\* positive in every iteration (stated for well-formed batches in which
\* every polygon asks for at least one point).
C10_ScalePositive == (it >= 1 /\ WellFormed /\ PositiveQuotas) => scale > 0

\* the pool holds at least quota(p) points of every polygon p
PoolCoversQuota ==
    \A p \in Positions : CountPoints(geoids[p]) >= num_points[p]

\* C11: idempotent selection. The output of the selection is determined by
\* the pool: for every polygon the returned records are the first quota(p)
\* of its pooled points in generation order (stated for pools that hold at
\* least quota(p) points of every polygon).
C11_FirstInGenerationOrder ==
    (pc = "returned" /\ PoolCoversQuota) =>
        \A p \in Positions :
            { selected[j] : j \in SelectedOf(p) }
                = { RowsOf(geoids[p])[k] : k \in 1 .. num_points[p] }

BatchGeoids == { geoids[p] : p \in Positions }

C14_ActiveSetExact ==
    it >= 1 =>
        keep_polygons = { p \in Positions : gen_points[p] < num_points[p] }

\* C14 happens: a round of a batch of two polygons has moved one polygon
\* out of the active set and kept the other, which is still short
C14_Witness ==
    /\ it >= 1 /\ num_polygons = 2 /\ PositiveQuotas
    /\ \E p, q \in Positions :
         /\ p \notin keep_polygons /\ gen_points[p] >= num_points[p]
         /\ q \in keep_polygons /\ gen_points[q] >= 1

\* C15: a round leaves the generated count and the pooled records of a
\* polygon that is not active at its start unchanged.
C15_InactiveUntouched ==
    [][\A p \in Positions :
          p \notin keep_polygons =>
              /\ gen_points'[p] = gen_points[p]
              /\ RowsOf(geoids[p])' = RowsOf(geoids[p])]_vars

\* C15 happens: two polygons with the same geometry and different generated
\* counts. Every candidate inside one is inside the other, so a round has
\* accepted candidates for the active one that fell inside the inactive one.
C15_Witness ==
    /\ num_polygons = 2
    /\ gdf[0].geometry = gdf[1].geometry
    /\ gen_points[0] # gen_points[1]

\* C16: the active set never grows and no generated count ever decreases.
C16_ActiveSetShrinks ==
    [][/\ keep_polygons' \subseteq keep_polygons
       /\ \A p \in Positions : gen_points'[p] >= gen_points[p]]_vars

\* C16 happens: after two or more rounds one polygon of a batch of two has
\* left the active set, beyond its quota, and the other is still active
C16_Witness ==
    /\ pc = "loop" /\ it >= 2 /\ num_polygons = 2
    /\ \E p, q \in Positions :
         /\ p \notin keep_polygons /\ gen_points[p] > num_points[p]
         /\ q \in keep_polygons

\* C17: the generated count of every polygon equals the number of pooled
\* records with its id, at every round boundary and when the selection runs.
C17_CounterMatchesPool ==
    \A p \in Positions : gen_points[p] = CountPoints(geoids[p])

\* C17 happens: the selection is about to run on a pool that holds two or
\* more records of one polygon and a record of another
C17_Witness ==
    /\ pc = "loop" /\ keep_polygons = {} /\ num_polygons = 2
    /\ \E p, q \in Positions :
         p # q /\ gen_points[p] >= 2 /\ gen_points[q] >= 1

\* C18: the selection looks up, for every polygon i of the batch, the quota
\* the loop used for it, so it does not fail on the lookup (stated for
\* well-formed batches in which every polygon asks for at least one point).
C18_SelectorQuota ==
    (pc # "loop" /\ WellFormed /\ PositiveQuotas) =>
        /\ err # "KeyError_val_col"
        /\ \A p \in Positions : HasLabel(p) /\ NumExpectedPoints(p) = num_points[p]

\* index of the first coordinate of polygon k of the table; the number of
\* coordinates for k past the last polygon
FirstCoord(k) ==
    IF k \in DOMAIN poly_offsets
      THEN ring_offsets[poly_offsets[k]] ELSE SeriesLen(xcoords)

\* the batch loop cuts batches at the multiples of batch_size: every polygon
\* index of the table is in the range [i, i + batch_size) of exactly one i
RangesCoverOnce ==
    \A q \in DOMAIN gdf_table :
        Cardinality({ b \in DOMAIN gdf_table :
                        b % batch_size = 0 /\ b <= q /\ q < b + batch_size }) = 1

\* C19: the row range [begin, end) the batch loop hands to get_subset is
\* within the table, and the offset poly_offsets[end] that get_subset reads
\* exists (stated for tables whose number of polygons is not a multiple of
\* batch_size, once get_subset has been called).
C19_RangesInBounds ==
    (pc \in { "loop", "returned", "error" }
        /\ SeriesLen(gdf_table) % batch_size # 0) =>
        /\ batch_begin < batch_begin + batch_size
        /\ batch_begin + batch_size <= SeriesLen(gdf_table)
        /\ (batch_begin + batch_size) \in DOMAIN poly_offsets

\* C20: get_subset returns the geometry of exactly the polygons
\* begin .. end - 1: the offsets it returns start at 0 and the coordinates it
\* returns are the coordinates of the rings of those polygons, no more and
\* no fewer.
C20_SubsetExact ==
    (pc = "loop" /\ it = 0) =>
        /\ subset.subset_poly_offsets[0] = 0
        /\ subset.subset_ring_offsets[0] = 0
        /\ subset.subset_xcoords
              = Slice(xcoords, FirstCoord(batch_begin),
                      FirstCoord(batch_begin + batch_size))
====
